---- MODULE Spec2Model ----
(***************************************************************************)
(* Model of wifi.py: a background monitor thread (monitor_loop) pings a    *)
(* fixed set of targets and records the result in status_store / history   *)
(* under a lock; HTTP handlers api_status and api_speedtest run in their   *)
(* own threads.                                                            *)
(*                                                                         *)
(* Numbers: None is modelled by -1 (all real values are naturals).         *)
(* Latencies are in thousandths of a millisecond, download/upload figures  *)
(* in hundredths of a Mbit/s, ping figures in tenths of a millisecond.    *)
(* The clock counts units of 1/SubSec second.                              *)
(***************************************************************************)
EXTENDS Integers, Sequences, FiniteSets, TLC

\* ---------------------------------------------------------------- bounds
\* deque maxlen explored (300 in the source)
HISTORY_LENGTH == 2
\* ticks of monitor_loop that are counted
MaxTicks == 3
\* last clock reading explored
MaxClock == 2
\* concurrent /api/status requests
NumReaders == 1
\* concurrent /api/speedtest requests
NumSpeedCallers == 1
\* largest raw download measurement explored, in units of RawStep bits/s
MaxRawSteps == 20240
\* bits/s between two raw bandwidth inputs
RawStep == 5000

\* ------------------------------------------------------------- constants
\* clock units per second; strftime("%S") drops the fraction
SubSec == 2
None == -1

Readers == 1..NumReaders
SpeedCallers == 1..NumSpeedCallers
MONITOR == <<"monitor", 0>>
FREE == <<"free", 0>>

\* WIFI_TARGETS: name -> ip, iterated in insertion order.  The first two of
\* the ten entries of the source are explored; a target is named by its
\* position.
WIFI_TARGETS == << <<192, 168, 1, 1>>, <<192, 168, 1, 2>> >>
Targets == DOMAIN WIFI_TARGETS

\* ------------------------------------------------------------ ping_latency
DigitVal(c) ==
    CASE c = "0" -> 0 [] c = "1" -> 1 [] c = "2" -> 2 [] c = "3" -> 3
      [] c = "4" -> 4 [] c = "5" -> 5 [] c = "6" -> 6 [] c = "7" -> 7
      [] c = "8" -> 8 [] c = "9" -> 9

RECURSIVE DigitsVal(_)
\* value of a sequence of decimal digits
DigitsVal(s) ==
    IF s = <<>> THEN 0
    ELSE 10 * DigitsVal(SubSeq(s, 1, Len(s) - 1)) + DigitVal(s[Len(s)])

\* positions of "." in a text
DotsOf(s) == {i \in 1..Len(s) : s[i] = "."}

\* float(text) for a text matched by [\d\.]+ : raises ValueError (Ok = FALSE)
\* unless the text has at most one "." and at least one digit.  The value is
\* in thousandths; inputs carry at most three fractional digits.
ParseFloat(s) ==
    LET dots == DotsOf(s) IN
    IF Cardinality(dots) > 1 \/ Cardinality(dots) = Len(s)
    THEN [Ok |-> FALSE, val |-> None]
    ELSE IF dots = {}
    THEN [Ok |-> TRUE, val |-> 1000 * DigitsVal(s)]
    ELSE LET d == CHOOSE i \in dots : TRUE
             ip == SubSeq(s, 1, d - 1)
             fp == SubSeq(s, d + 1, Len(s))
             pad == CASE Len(fp) = 0 -> 1000 [] Len(fp) = 1 -> 100
                      [] Len(fp) = 2 -> 10 [] OTHER -> 1
         IN [Ok |-> TRUE, val |-> 1000 * DigitsVal(ip) + pad * DigitsVal(fp)]

\* The output of ping is a sequence of lines; a line is
\*   [k |-> "time", num |-> text]  a line holding  time=<text> ms
\*   [k |-> "avg",  num |-> text]  a line holding  Average = <digits>ms
\*   [k |-> "other", num |-> <<>>] anything else
\* first line of kind k in out, 0 if none: re.search finds the leftmost match
FirstLine(out, k) ==
    IF \E i \in 1..Len(out) : out[i].k = k
    THEN CHOOSE i \in 1..Len(out) :
            out[i].k = k /\ \A j \in 1..(i - 1) : out[j].k # k
    ELSE 0

\* _ping_time_re.search(out) or _windows_avg_re.search(out): group(1) of the
\* match, <<>> when neither pattern matches
SearchLatency(out) ==
    LET t == FirstLine(out, "time")
        a == FirstLine(out, "avg")
    IN IF t # 0 THEN out[t].num
       ELSE IF a # 0 THEN out[a].num
       ELSE <<>>

\* no try/except around subprocess.run: its exception leaves the function
ping_latency_raises(p) ==
    IF p.exc THEN [raised |-> TRUE, ok |-> FALSE, lat |-> None]
    ELSE IF p.rc = 0
    THEN LET m == SearchLatency(p.out) IN
         IF m # <<>> /\ ParseFloat(m).Ok
         THEN [raised |-> FALSE, ok |-> TRUE, lat |-> ParseFloat(m).val]
         ELSE [raised |-> FALSE, ok |-> TRUE, lat |-> None]
    ELSE [raised |-> FALSE, ok |-> FALSE, lat |-> None]

\* success without a latency reported as a failure
ping_latency_conflates(p) ==
    IF p.exc THEN [raised |-> FALSE, ok |-> FALSE, lat |-> None]
    ELSE IF p.rc = 0
    THEN LET m == SearchLatency(p.out) IN
         IF m # <<>> /\ ParseFloat(m).Ok
         THEN [raised |-> FALSE, ok |-> TRUE, lat |-> ParseFloat(m).val]
         ELSE [raised |-> FALSE, ok |-> FALSE, lat |-> None]
    ELSE [raised |-> FALSE, ok |-> FALSE, lat |-> None]

\* A subprocess.run outcome: exc is TRUE when run() raised (missing binary,
\* TimeoutExpired, any other Exception); otherwise rc and out are the return
\* code and stdout+stderr.
\* Result of ping_latency: raised is TRUE when an exception leaves the
\* function.
ping_latency(p) ==
    IF p.exc THEN [raised |-> FALSE, ok |-> FALSE, lat |-> None]
    ELSE IF p.rc = 0
    THEN LET m == SearchLatency(p.out) IN
         IF m # <<>> /\ ParseFloat(m).Ok
         THEN [raised |-> FALSE, ok |-> TRUE, lat |-> ParseFloat(m).val]
         ELSE [raised |-> FALSE, ok |-> TRUE, lat |-> None]
    ELSE [raised |-> FALSE, ok |-> FALSE, lat |-> None]

\* ------------------------------------------------------------------ state
VARIABLES
    status_store,   \* name -> [ip, status, last, latency]
    history,        \* name -> deque(maxlen=HISTORY_LENGTH) of <<ts, 0/1, lat>>
    last_status,    \* name -> status
    lock,           \* the holder: FREE, MONITOR, or <<"reader", r>>
    mon,            \* the monitor thread: position and locals
    rd,             \* the /api/status request threads
    sp,             \* the /api/speedtest request threads
    ticks,          \* completed passes of the for loop, counted up to MaxTicks
    htick,          \* name -> the tick number of each sample of history
    tickDone        \* names updated so far in the current pass

vars == <<status_store, history, last_status, lock, mon, rd, sp,
          ticks, htick, tickDone>>

NoProc == [exc |-> FALSE, rc |-> -1, out |-> <<>>]
NoResp == <<>>

\* locals of monitor_loop before they are assigned
MonLocals(i) ==
    [pc |-> "probe", idx |-> i, proc |-> NoProc, ok |-> FALSE, lat |-> None,
     status |-> "", ts |-> None]

SpIdle ==
    [pc |-> "idle", ssid |-> "", dl |-> None, ul |-> None, ping |-> None,
     failed |-> FALSE, res |-> <<None, None, None>>, resp |-> NoResp]

Init ==
    /\ status_store = [n \in Targets |->
          [ip |-> WIFI_TARGETS[n], status |-> "Unknown", last |-> None,
           latency |-> None]]
    /\ history = [n \in Targets |-> <<>>]
    /\ last_status = [n \in Targets |-> "Unknown"]
    /\ lock = FREE
    /\ mon = MonLocals(1)
    /\ rd = [r \in Readers |-> [pc |-> "idle", resp |-> NoResp]]
    /\ sp = [t \in SpeedCallers |-> SpIdle]
    /\ ticks = 0
    /\ htick = [n \in Targets |-> <<>>]
    /\ tickDone = {}

\* datetime.now().strftime("%Y-%m-%d %H:%M:%S"): the whole seconds of the
\* clock; the fixed-width text orders as the number does
FormatTs(t) == t \div SubSec

\* deque.appendleft in place of append
DequeAppendLeft(q, x) ==
    IF Len(q) >= HISTORY_LENGTH
    THEN <<x>> \o SubSeq(q, 1, Len(q) - 1)
    ELSE <<x>> \o q

\* a full deque that drops its newest item instead of its oldest
DequeAppendDropNewest(q, x) ==
    IF Len(q) >= HISTORY_LENGTH
    THEN Append(SubSeq(q, 1, Len(q) - 1), x)
    ELSE Append(q, x)

\* deque(maxlen=HISTORY_LENGTH).append: a full deque drops its leftmost item
DequeAppend(q, x) ==
    IF Len(q) >= HISTORY_LENGTH THEN Append(Tail(q), x) ELSE Append(q, x)

\* datetime.now(): the local wall clock, which may stand still, advance or
\* be set back between two readings; any reading up to the last one explored
ClockReadings(last) == 0..last

\* ----------------------------------------------------------- monitor_loop
\* a failed probe reported as never probed
StatusOfUnknown(ok) == IF ok THEN "UP" ELSE "Unknown"

\* the two labels swapped
StatusOfSwapped(ok) == IF ok THEN "DOWN" ELSE "UP"

\* line 104: status = "UP" if ok else "DOWN"
StatusOf(ok) == IF ok THEN "UP" ELSE "DOWN"

\* the ping made under the lock: a with lock block around line 103
MonitorProbeLocked(Procs) ==
    /\ mon.pc = "probe"
    /\ lock = FREE
    /\ lock' = MONITOR
    /\ \E p \in Procs :
          LET r == ping_latency(p) IN
          mon' = IF r.raised
                 THEN [mon EXCEPT !.pc = "crashed", !.proc = p]
                 ELSE [mon EXCEPT !.pc = "stamp", !.proc = p, !.ok = r.ok,
                                  !.lat = r.lat, !.status = StatusOf(r.ok)]
    /\ UNCHANGED <<status_store, history, last_status, rd, sp,
                   ticks, htick, tickDone>>

\* lines 103-104: ok, lat = ping_latency(ip), then the status
MonitorProbe(Procs) ==
    /\ mon.pc = "probe"
    /\ \E p \in Procs :
          LET r == ping_latency(p) IN
          mon' = IF r.raised
                 THEN [mon EXCEPT !.pc = "crashed", !.proc = p]
                 ELSE [mon EXCEPT !.pc = "stamp", !.proc = p, !.ok = r.ok,
                                  !.lat = r.lat, !.status = StatusOf(r.ok)]
    /\ UNCHANGED <<status_store, history, last_status, lock, rd, sp,
                   ticks, htick, tickDone>>

\* line 105: ts = datetime.now().strftime(...)
MonitorStamp(last) ==
    /\ mon.pc = "stamp"
    /\ \E t \in ClockReadings(last) :
          mon' = [mon EXCEPT !.pc = "acquire", !.ts = FormatTs(t)]
    /\ UNCHANGED <<status_store, history, last_status, lock, rd, sp,
                   ticks, htick, tickDone>>

\* line 106: with lock (enter)
MonitorAcquire ==
    /\ mon.pc = "acquire"
    /\ lock = FREE
    /\ lock' = MONITOR
    /\ mon' = [mon EXCEPT !.pc = "w_ip"]
    /\ UNCHANGED <<status_store, history, last_status, rd, sp,
                   ticks, htick, tickDone>>

\* line 107: status_store[name].update({...}) stores the four items in the
\* order of the literal
\* the address of the first target stored for every target
MonitorWriteIpFirst ==
    /\ mon.pc = "w_ip"
    /\ status_store' = [status_store EXCEPT ![mon.idx].ip = WIFI_TARGETS[1]]
    /\ mon' = [mon EXCEPT !.pc = "w_status"]
    /\ UNCHANGED <<history, last_status, lock, rd, sp, ticks, htick,
                   tickDone>>

MonitorWriteIp ==
    /\ mon.pc = "w_ip"
    /\ status_store' = [status_store EXCEPT ![mon.idx].ip = WIFI_TARGETS[mon.idx]]
    /\ mon' = [mon EXCEPT !.pc = "w_status"]
    /\ UNCHANGED <<history, last_status, lock, rd, sp, ticks, htick,
                   tickDone>>

\* every name given the same record object (a dict.fromkeys at line 34)
MonitorWriteStatusShared ==
    /\ mon.pc = "w_status"
    /\ status_store' =
          [n \in Targets |-> [status_store[n] EXCEPT !.status = mon.status]]
    /\ mon' = [mon EXCEPT !.pc = "w_last"]
    /\ UNCHANGED <<history, last_status, lock, rd, sp, ticks, htick,
                   tickDone>>

MonitorWriteStatus ==
    /\ mon.pc = "w_status"
    /\ status_store' = [status_store EXCEPT ![mon.idx].status = mon.status]
    /\ mon' = [mon EXCEPT !.pc = "w_last"]
    /\ UNCHANGED <<history, last_status, lock, rd, sp, ticks, htick,
                   tickDone>>

MonitorWriteLast ==
    /\ mon.pc = "w_last"
    /\ status_store' = [status_store EXCEPT ![mon.idx].last = mon.ts]
    /\ mon' = [mon EXCEPT !.pc = "w_latency"]
    /\ UNCHANGED <<history, last_status, lock, rd, sp, ticks, htick,
                   tickDone>>

\* the with block closed after line 107: the append made without the lock
MonitorWriteLatencyUnlocks ==
    /\ mon.pc = "w_latency"
    /\ status_store' = [status_store EXCEPT ![mon.idx].latency = mon.lat]
    /\ lock' = FREE
    /\ mon' = [mon EXCEPT !.pc = "append"]
    /\ UNCHANGED <<history, last_status, rd, sp, ticks, htick, tickDone>>

MonitorWriteLatency ==
    /\ mon.pc = "w_latency"
    /\ status_store' = [status_store EXCEPT ![mon.idx].latency = mon.lat]
    /\ mon' = [mon EXCEPT !.pc = "append"]
    /\ UNCHANGED <<history, last_status, lock, rd, sp, ticks, htick,
                   tickDone>>

\* the record line 107 builds from the locals
NewRecord(m) ==
    [ip |-> WIFI_TARGETS[m.idx], status |-> m.status, last |-> m.ts,
     latency |-> m.lat]

\* the sample line 108 appends
SampleOf(ts, ok, lat) == <<ts, IF ok THEN 1 ELSE 0, lat>>

\* line 108: history[name].append((ts, 1 if ok else 0, lat)).  The number
\* of the tick goes with the sample.
MonitorAppend ==
    /\ mon.pc = "append"
    /\ history' = [history EXCEPT
          ![mon.idx] = DequeAppend(@, SampleOf(mon.ts, mon.ok, mon.lat))]
    /\ htick' = [htick EXCEPT ![mon.idx] = DequeAppend(@, ticks + 1)]
    /\ tickDone' = tickDone \cup {mon.idx}
    /\ mon' = [mon EXCEPT !.pc = "release"]
    /\ UNCHANGED <<status_store, last_status, lock, rd, sp, ticks>>

\* line 108 -> 109: with lock (exit)
MonitorRelease ==
    /\ mon.pc = "release"
    /\ lock' = FREE
    /\ mon' = [mon EXCEPT !.pc = "last_status"]
    /\ UNCHANGED <<status_store, history, last_status, rd, sp, ticks,
                   htick, tickDone>>

\* a failed probe ends the pass: a break out of the for loop
MonitorLastStatusBreak ==
    /\ mon.pc = "last_status"
    /\ last_status' = [last_status EXCEPT ![mon.idx] = mon.status]
    /\ IF mon.idx < Len(WIFI_TARGETS) /\ mon.status # "DOWN"
       THEN /\ mon' = MonLocals(mon.idx + 1)
            /\ ticks' = ticks
       ELSE /\ mon' = [MonLocals(1) EXCEPT !.pc = "sleep"]
            /\ ticks' = IF ticks < MaxTicks THEN ticks + 1 ELSE ticks
    /\ UNCHANGED <<status_store, history, lock, rd, sp, htick, tickDone>>

\* a target whose probe failed is probed again at once
MonitorLastStatusRetry ==
    /\ mon.pc = "last_status"
    /\ last_status' = [last_status EXCEPT ![mon.idx] = mon.status]
    /\ IF mon.status = "DOWN"
       THEN /\ mon' = MonLocals(mon.idx)
            /\ ticks' = ticks
       ELSE IF mon.idx < Len(WIFI_TARGETS)
       THEN /\ mon' = MonLocals(mon.idx + 1)
            /\ ticks' = ticks
       ELSE /\ mon' = [MonLocals(1) EXCEPT !.pc = "sleep"]
            /\ ticks' = IF ticks < MaxTicks THEN ticks + 1 ELSE ticks
    /\ UNCHANGED <<status_store, history, lock, rd, sp, htick, tickDone>>

\* line 109: last_status[name] = status, then the next item of the for loop;
\* after the last item the pass is complete.  The locals are dead here and
\* are reset.
MonitorLastStatus ==
    /\ mon.pc = "last_status"
    /\ last_status' = [last_status EXCEPT ![mon.idx] = mon.status]
    /\ IF mon.idx < Len(WIFI_TARGETS)
       THEN /\ mon' = MonLocals(mon.idx + 1)
            /\ ticks' = ticks
       ELSE /\ mon' = [MonLocals(1) EXCEPT !.pc = "sleep"]
            /\ ticks' = IF ticks < MaxTicks THEN ticks + 1 ELSE ticks
    /\ UNCHANGED <<status_store, history, lock, rd, sp, htick, tickDone>>

\* line 110: time.sleep(CHECK_INTERVAL), then the next pass of while True
MonitorSleep ==
    /\ mon.pc = "sleep"
    /\ mon' = MonLocals(1)
    /\ tickDone' = {}
    /\ UNCHANGED <<status_store, history, last_status, lock, rd, sp,
                   ticks, htick>>

\* -------------------------------------------------------------- api_status
\* a request for /api/status arrives and its thread reaches line 240
StatusRequest(r) ==
    /\ rd[r].pc = "idle"
    /\ rd' = [rd EXCEPT ![r].pc = "acquire"]
    /\ UNCHANGED <<status_store, history, last_status, lock, mon, sp,
                   ticks, htick, tickDone>>

\* the handler without "with lock"
StatusAcquireNoLock(r) ==
    /\ rd[r].pc = "acquire"
    /\ rd' = [rd EXCEPT ![r].pc = "copy"]
    /\ UNCHANGED <<status_store, history, last_status, lock, mon, sp,
                   ticks, htick, tickDone>>

\* line 240: with lock (enter)
StatusAcquire(r) ==
    /\ rd[r].pc = "acquire"
    /\ lock = FREE
    /\ lock' = <<"reader", r>>
    /\ rd' = [rd EXCEPT ![r].pc = "copy"]
    /\ UNCHANGED <<status_store, history, last_status, mon, sp,
                   ticks, htick, tickDone>>

\* line 241: jsonify(status_store) serialises every record
StatusCopy(r) ==
    /\ rd[r].pc = "copy"
    /\ rd' = [rd EXCEPT ![r].pc = "return", ![r].resp = status_store]
    /\ UNCHANGED <<status_store, history, last_status, lock, mon, sp,
                   ticks, htick, tickDone>>

\* the handler acquiring the lock without ever releasing it
StatusReturnKeepsLock(r) ==
    /\ rd[r].pc = "return"
    /\ rd' = [rd EXCEPT ![r] = [pc |-> "idle", resp |-> NoResp]]
    /\ UNCHANGED <<status_store, history, last_status, lock, mon, sp,
                   ticks, htick, tickDone>>

\* line 241: return leaves the with block and the response is sent
StatusReturn(r) ==
    /\ rd[r].pc = "return"
    /\ lock' = IF lock = <<"reader", r>> THEN FREE ELSE lock
    /\ rd' = [rd EXCEPT ![r] = [pc |-> "idle", resp |-> NoResp]]
    /\ UNCHANGED <<status_store, history, last_status, mon, sp,
                   ticks, htick, tickDone>>

\* ---------------------------------------------------------- run_speedtest
\* The figures are Python floats: x / unit stands for the double nearest to
\* it (the quotient of line 85/86, or the value of results.ping).
\* v * 2^s modulo m
RECURSIVE MulPow2Mod(_, _, _)
MulPow2Mod(v, s, m) ==
    IF s = 0 THEN v % m ELSE MulPow2Mod((2 * v) % m, s - 1, m)

\* floor(log2(w)) for w >= 1
RECURSIVE Log2Floor(_)
Log2Floor(w) == IF w < 2 THEN 0 ELSE 1 + Log2Floor(w \div 2)

\* the number of doublings that bring y > 0 up to unit
RECURSIVE Doublings(_, _)
Doublings(y, unit) == IF y >= unit THEN 0 ELSE 1 + Doublings(2 * y, unit)

\* the binary exponent e of x / unit > 0: 2^e <= x / unit < 2^(e + 1)
BinaryExponent(x, unit) ==
    IF x >= unit THEN Log2Floor(x \div unit) ELSE 0 - Doublings(x, unit)

\* the sign of (the double nearest to x / unit) - x / unit: the 53-bit
\* significand is x * 2^(52 - e) / unit rounded to an integer, half to even
DoubleError(x, unit) ==
    IF x = 0 THEN 0
    ELSE LET s == 52 - BinaryExponent(x, unit)
             v == MulPow2Mod(x % (2 * unit), s, 2 * unit)
             r == v % unit
         IN IF r = 0 THEN 0
            ELSE IF 2 * r < unit THEN -1
            ELSE IF 2 * r > unit THEN 1
            ELSE IF v \div unit = 1 THEN 1 ELSE -1

\* round(x / unit, nd) as a count of steps of per units: float.__round__
\* rounds the exact value of the double, so a figure written as a decimal
\* tie goes up or down with the sign of the double's error, and to the even
\* neighbour only when the double is the tie itself
RoundTo(x, per, unit) ==
    LET q == x \div per
        r == x % per
        d == DoubleError(x, unit)
    IN IF 2 * r < per THEN q
       ELSE IF 2 * r > per THEN q + 1
       ELSE IF d > 0 THEN q + 1
       ELSE IF d < 0 THEN q
       ELSE IF q % 2 = 0 THEN q ELSE q + 1

\* line 85/86/88: round(bits / 1_000_000, 2), in hundredths of a Mbit/s
Round2(bits) == RoundTo(bits, 10000, 1000000)

\* line 88: round(ping, 1), ping given in hundredths of a ms, in tenths
Round1(ping) == RoundTo(ping, 10, 100)

\* hundredths per Mbit/s: the unit of download_mbps
PerMbps == 100

\* the thresholds compared with > instead of >=
compute_health_strict(download_mbps) ==
    IF download_mbps = None THEN <<"Unknown", "text-gray-400">>
    ELSE IF download_mbps > 100 * PerMbps THEN <<"Excellent", "text-green-400">>
    ELSE IF download_mbps > 50 * PerMbps THEN <<"Good", "text-yellow-400">>
    ELSE IF download_mbps > 10 * PerMbps THEN <<"Fair", "text-orange-400">>
    ELSE <<"Weak", "text-red-500">>

\* lines 93-98
compute_health(download_mbps) ==
    IF download_mbps = None THEN <<"Unknown", "text-gray-400">>
    ELSE IF download_mbps >= 100 * PerMbps THEN <<"Excellent", "text-green-400">>
    ELSE IF download_mbps >= 50 * PerMbps THEN <<"Good", "text-yellow-400">>
    ELSE IF download_mbps >= 10 * PerMbps THEN <<"Fair", "text-orange-400">>
    ELSE <<"Weak", "text-red-500">>

\* ------------------------------------------------------------ api_speedtest
\* the handler wrapped in "with lock"
SpeedRequestLocked(t) ==
    /\ sp[t].pc = "idle"
    /\ lock = FREE
    /\ lock' = <<"speed", t>>
    /\ sp' = [sp EXCEPT ![t].pc = "ssid"]
    /\ UNCHANGED <<status_store, history, last_status, mon, rd,
                   ticks, htick, tickDone>>

\* a request for /api/speedtest arrives and its thread reaches line 245
SpeedRequest(t) ==
    /\ sp[t].pc = "idle"
    /\ sp' = [sp EXCEPT ![t].pc = "ssid"]
    /\ UNCHANGED <<status_store, history, last_status, lock, mon, rd,
                   ticks, htick, tickDone>>

\* line 245: ssid = get_current_ssid(), which returns "Unknown" on any error
SpeedSsid(t, Names) ==
    /\ sp[t].pc = "ssid"
    /\ \E s \in Names : sp' = [sp EXCEPT ![t].pc = "init", ![t].ssid = s]
    /\ UNCHANGED <<status_store, history, last_status, lock, mon, rd,
                   ticks, htick, tickDone>>

\* line 83: st = speedtest.Speedtest()
StInit(t) ==
    /\ sp[t].pc = "init"
    /\ sp' = [sp EXCEPT ![t].pc = "server"]
    /\ UNCHANGED <<status_store, history, last_status, lock, mon, rd,
                   ticks, htick, tickDone>>

\* line 84: st.get_best_server()
StBestServer(t) ==
    /\ sp[t].pc = "server"
    /\ sp' = [sp EXCEPT ![t].pc = "download"]
    /\ UNCHANGED <<status_store, history, last_status, lock, mon, rd,
                   ticks, htick, tickDone>>

\* line 85: dl = st.download() / 1_000_000 (kept in bits/s until rounded)
StDownload(t, Raws) ==
    /\ sp[t].pc = "download"
    /\ \E b \in Raws : sp' = [sp EXCEPT ![t].pc = "upload", ![t].dl = b]
    /\ UNCHANGED <<status_store, history, last_status, lock, mon, rd,
                   ticks, htick, tickDone>>

\* line 86: ul = st.upload() / 1_000_000
StUpload(t, Ups) ==
    /\ sp[t].pc = "upload"
    /\ \E b \in Ups : sp' = [sp EXCEPT ![t].pc = "ping", ![t].ul = b]
    /\ UNCHANGED <<status_store, history, last_status, lock, mon, rd,
                   ticks, htick, tickDone>>

\* lines 87-88: ping = st.results.ping; return the three rounded figures
StReturn(t, Pings) ==
    /\ sp[t].pc = "ping"
    /\ \E g \in Pings :
          sp' = [sp EXCEPT ![t].pc = "health", ![t].ping = g,
                   ![t].res = <<Round2(sp[t].dl), Round2(sp[t].ul), Round1(g)>>]
    /\ UNCHANGED <<status_store, history, last_status, lock, mon, rd,
                   ticks, htick, tickDone>>

\* the handler returning zeros in place of None
StFailZero(t) ==
    /\ sp[t].pc \in {"init", "server", "download", "upload"}
    /\ sp' = [sp EXCEPT ![t].pc = "health", ![t].failed = TRUE,
                         ![t].res = <<0, 0, 0>>]
    /\ UNCHANGED <<status_store, history, last_status, lock, mon, rd,
                   ticks, htick, tickDone>>

\* lines 89-91: any of the calls of lines 83-86 raises; the handler prints
\* and returns None, None, None
StFail(t) ==
    /\ sp[t].pc \in {"init", "server", "download", "upload"}
    /\ sp' = [sp EXCEPT ![t].pc = "health", ![t].failed = TRUE,
                         ![t].res = <<None, None, None>>]
    /\ UNCHANGED <<status_store, history, last_status, lock, mon, rd,
                   ticks, htick, tickDone>>

\* lines 246-256: dl, ul, ping = run_speedtest(); health, color =
\* compute_health(dl); the JSON body
SpeedHealth(t, last) ==
    /\ sp[t].pc = "health"
    /\ \E c \in ClockReadings(last) :
          LET res == sp[t].res
              h == compute_health(res[1])
          IN sp' = [sp EXCEPT ![t].pc = "respond",
                   ![t].resp = [ssid |-> sp[t].ssid, download_mbps |-> res[1],
                                upload_mbps |-> res[2], ping_ms |-> res[3],
                                health |-> h[1], health_color |-> h[2],
                                time |-> FormatTs(c)]]
    /\ UNCHANGED <<status_store, history, last_status, lock, mon, rd,
                   ticks, htick, tickDone>>

\* the response is sent and the request thread ends
SpeedRespond(t) ==
    /\ sp[t].pc = "respond"
    /\ sp' = [sp EXCEPT ![t] = SpIdle]
    /\ UNCHANGED <<status_store, history, last_status, lock, mon, rd,
                   ticks, htick, tickDone>>

api_speedtest(t, Names, Raws, Ups, Pings, last) ==
    \/ SpeedRequest(t)
    \/ SpeedSsid(t, Names)
    \/ StInit(t)
    \/ StBestServer(t)
    \/ StDownload(t, Raws)
    \/ StUpload(t, Ups)
    \/ StReturn(t, Pings)
    \/ StFail(t)
    \/ SpeedHealth(t, last)
    \/ SpeedRespond(t)

\* a ping that fails and a ping that answers with a time
LiveProcs ==
    { [exc |-> TRUE, rc |-> -1, out |-> <<>>],
      [exc |-> FALSE, rc |-> 0, out |-> <<[k |-> "time", num |-> <<"1", ".", "5">>]>>] }

\* the three shapes of ping_latency: failure, a latency, success without one
SmallProcs ==
    { [exc |-> TRUE, rc |-> -1, out |-> <<>>],
      [exc |-> FALSE, rc |-> 0, out |-> <<[k |-> "time", num |-> <<"1", ".", "5">>]>>],
      [exc |-> FALSE, rc |-> 0, out |-> <<[k |-> "other", num |-> <<>>]>>] }

Monitor(Procs, last) ==
    \/ MonitorProbe(Procs)
    \/ MonitorStamp(last)
    \/ MonitorAcquire
    \/ MonitorWriteIp
    \/ MonitorWriteStatus
    \/ MonitorWriteLast
    \/ MonitorWriteLatency
    \/ MonitorAppend
    \/ MonitorRelease
    \/ MonitorLastStatus

api_status(r) ==
    \/ StatusRequest(r)
    \/ StatusAcquire(r)
    \/ StatusCopy(r)
    \/ StatusReturn(r)

\* the monitor and the /api/status requests, for MaxTicks ticks
Next ==
    \/ Monitor(LiveProcs, MaxClock)
    \/ (ticks < MaxTicks /\ MonitorSleep)
    \/ \E r \in Readers : api_status(r)

Spec == Init /\ [][Next]_vars

\* the monitor alone, over every shape of probe result, for MaxTicks ticks
MonitorNext ==
    \/ Monitor(SmallProcs, MaxClock)
    \/ (ticks < MaxTicks /\ MonitorSleep)

MonitorSpec == Init /\ [][MonitorNext]_vars

\* ---------------------------------------------- the /api/speedtest handler
\* raw download inputs: every multiple of RawStep bits/s up to MaxRawSteps
RawDownloads == {RawStep * k : k \in 0..MaxRawSteps}
RawUploads == {12344000, 12345000}
RawPings == {1234, 1235, 1237}
\* get_current_ssid: the name found, an empty name, or "Unknown" when the
\* lookup fails or finds nothing (line 79)
Ssids == {"homenet", "", "Unknown"}

\* one request at a time, over the whole range of measurements
SpeedNext ==
    api_speedtest(1, Ssids, RawDownloads, RawUploads, RawPings, 0)

SpeedSpec == Init /\ [][SpeedNext]_vars

\* ------------------------------------- concurrent /api/speedtest requests
\* app.run (line 261) serves every request in a thread of its own, and lines
\* 243-256 take no lock: there is one request more here than in the other
\* specifications, so that there are always at least two
GatewayCallers == 1..(NumSpeedCallers + 1)

GatewayInit ==
    /\ status_store = [n \in Targets |->
          [ip |-> WIFI_TARGETS[n], status |-> "Unknown", last |-> None,
           latency |-> None]]
    /\ history = [n \in Targets |-> <<>>]
    /\ last_status = [n \in Targets |-> "Unknown"]
    /\ lock = FREE
    /\ mon = MonLocals(1)
    /\ rd = [r \in Readers |-> [pc |-> "idle", resp |-> NoResp]]
    /\ sp = [t \in GatewayCallers |-> SpIdle]
    /\ ticks = 0
    /\ htick = [n \in Targets |-> <<>>]
    /\ tickDone = {}

GatewayNext ==
    \E t \in GatewayCallers :
       api_speedtest(t, Ssids, {50000000}, RawUploads, RawPings, 0)

GatewaySpec == GatewayInit /\ [][GatewayNext]_vars

\* ------------------------------------------------ all threads, unbounded
\* The monitor loop runs for ever; ticks are not counted (the counter starts
\* at its cap) and every reading of the clock is 0.
LiveInit ==
    /\ status_store = [n \in Targets |->
          [ip |-> WIFI_TARGETS[n], status |-> "Unknown", last |-> None,
           latency |-> None]]
    /\ history = [n \in Targets |-> <<>>]
    /\ last_status = [n \in Targets |-> "Unknown"]
    /\ lock = FREE
    /\ mon = MonLocals(1)
    /\ rd = [r \in Readers |-> [pc |-> "idle", resp |-> NoResp]]
    /\ sp = [t \in SpeedCallers |-> SpIdle]
    /\ ticks = MaxTicks
    /\ htick = [n \in Targets |-> <<>>]
    /\ tickDone = {}

LiveNext ==
    \/ Monitor(LiveProcs, 0)
    \/ MonitorSleep
    \/ \E r \in Readers : api_status(r)

\* the steps of the monitor that do not wait for the lock
MonitorRun(Procs) ==
    \/ MonitorProbe(Procs)
    \/ MonitorStamp(0)
    \/ MonitorWriteIp
    \/ MonitorWriteStatus
    \/ MonitorWriteLast
    \/ MonitorWriteLatency
    \/ MonitorAppend
    \/ MonitorRelease
    \/ MonitorLastStatus
    \/ MonitorSleep

\* The monitor thread is always scheduled again, ping and sleep return
\* (subprocess.run has a timeout), a thread waiting for the lock gets it when
\* it is released often enough, and a handler that holds the lock goes on.
\* Nothing is assumed about the calls of run_speedtest: they may never
\* return.
LiveFairness(Procs) ==
    /\ WF_vars(MonitorRun(Procs))
    /\ SF_vars(MonitorAcquire)
    /\ \A r \in Readers :
          /\ SF_vars(StatusAcquire(r))
          /\ WF_vars(StatusCopy(r) \/ StatusReturn(r))

LiveSpec == LiveInit /\ [][LiveNext]_vars /\ LiveFairness(LiveProcs)

\* ------------------------------- concurrent /api/status requests, unbounded
\* app.run serves every request in a thread of its own: one request more
\* here than in the other specifications, so that at least two api_status
\* threads and the monitor contend for the lock
ContendReaders == 1..(NumReaders + 1)

ContendInit ==
    /\ status_store = [n \in Targets |->
          [ip |-> WIFI_TARGETS[n], status |-> "Unknown", last |-> None,
           latency |-> None]]
    /\ history = [n \in Targets |-> <<>>]
    /\ last_status = [n \in Targets |-> "Unknown"]
    /\ lock = FREE
    /\ mon = MonLocals(1)
    /\ rd = [r \in ContendReaders |-> [pc |-> "idle", resp |-> NoResp]]
    /\ sp = [t \in SpeedCallers |-> SpIdle]
    /\ ticks = MaxTicks
    /\ htick = [n \in Targets |-> <<>>]
    /\ tickDone = {}

ContendNext ==
    \/ Monitor(LiveProcs, 0)
    \/ MonitorSleep
    \/ \E r \in ContendReaders : api_status(r)

\* as LiveFairness, for these request threads
ContendFairness ==
    /\ WF_vars(MonitorRun(LiveProcs))
    /\ SF_vars(MonitorAcquire)
    /\ \A r \in ContendReaders :
          /\ SF_vars(StatusAcquire(r))
          /\ WF_vars(StatusCopy(r) \/ StatusReturn(r))

ContendSpec == ContendInit /\ [][ContendNext]_vars /\ ContendFairness

\* ------------------------------- all threads with speedtest requests too
\* every ping succeeds; the speedtest requests measure one set of figures
UpProcs ==
    { [exc |-> FALSE, rc |-> 0, out |-> <<[k |-> "time", num |-> <<"1", ".", "5">>]>>] }

ServeNext ==
    \/ Monitor(UpProcs, 0)
    \/ MonitorSleep
    \/ \E r \in Readers : api_status(r)
    \/ \E t \in SpeedCallers :
          api_speedtest(t, {"homenet"}, {50000000}, {12344000}, {1234}, 0)

ServeSpec == LiveInit /\ [][ServeNext]_vars /\ LiveFairness(UpProcs)

\* ------------------------------------------------------- ping_latency only
\* texts that [\d\.]+ can match
PingChars == {"1", "5", "."}
NumTexts ==
    {<<a>> : a \in PingChars} \cup {<<a, b>> : a \in PingChars, b \in PingChars}
      \cup {<<"1", ".", "5">>, <<"1", ".", ".">>}
PingLines ==
    {[k |-> "other", num |-> <<>>], [k |-> "avg", num |-> <<"7">>]}
      \cup {[k |-> "time", num |-> x] : x \in NumTexts}
PingOutputs ==
    {<<>>} \cup {<<a>> : a \in PingLines}
      \cup {<<a, b>> : a \in PingLines, b \in PingLines}
AllProcs ==
    {[exc |-> TRUE, rc |-> -1, out |-> <<>>]}
      \cup {[exc |-> FALSE, rc |-> c, out |-> o] : c \in {0, 1}, o \in PingOutputs}

\* one pass of the monitor over the targets, over every ping outcome
PingNext == Monitor(AllProcs, 0)

PingSpec == Init /\ [][PingNext]_vars

\* ================================================================ claims
Min(a, b) == IF a <= b THEN a ELSE b

\* the newest sample of a non-empty history
Newest(n) == history[n][Len(history[n])]

\* the record that goes with a sample (lines 104, 107, 108)
RecordOfSample(n, smp) ==
    [ip |-> WIFI_TARGETS[n], status |-> IF smp[2] = 1 THEN "UP" ELSE "DOWN",
     last |-> smp[1], latency |-> smp[3]]

\* the monitor is between two passes: none of the targets is updated yet, or
\* all of them are
TickBoundary == mon.pc = "sleep" \/ tickDone = {}

\* C1: once monitor_loop has completed N ticks, the history of every target
\* holds exactly min(N, HISTORY_LENGTH) samples; they are the samples of the
\* ticks N-k+1 .. N, one per tick, in that order, and their timestamps do not
\* decrease.
C1_HistoryAfterTicks ==
    TickBoundary =>
      \A n \in Targets :
        LET k == Min(ticks, HISTORY_LENGTH)
            h == history[n]
        IN /\ Len(h) = k
           /\ htick[n] = [i \in 1..k |-> ticks - k + i]
           /\ \A i \in 1..(k - 1) : h[i][1] <= h[i + 1][1]

\* C2: the history of a target never holds more than HISTORY_LENGTH samples;
\* its samples are those of the last appends, without a gap; only line 108
\* changes it, and an append to a full history removes exactly the oldest
\* sample and puts the new one last.
C2_BoundedFifo ==
    /\ [](\A n \in Targets :
            /\ Len(history[n]) <= HISTORY_LENGTH
            /\ Len(htick[n]) = Len(history[n])
            /\ \A i \in 1..(Len(htick[n]) - 1) : htick[n][i + 1] = htick[n][i] + 1)
    /\ [][\A n \in Targets :
            IF mon.pc = "append" /\ mon'.pc = "release" /\ mon.idx = n
            THEN history'[n] =
                   (IF Len(history[n]) = HISTORY_LENGTH
                    THEN Tail(history[n]) ELSE history[n])
                     \o <<SampleOf(mon.ts, mon.ok, mon.lat)>>
            ELSE history'[n] = history[n]]_vars

\* C2 witness: a full history has given up its first sample, and the sample
\* it keeps first differs from the one it keeps last
C2_Witness ==
    \E n \in Targets :
      /\ Len(history[n]) = HISTORY_LENGTH
      /\ htick[n][1] > 1
      /\ history[n][1] # Newest(n)

\* the record of a target before its first update (line 34)
InitialRecord(n) ==
    [ip |-> WIFI_TARGETS[n], status |-> "Unknown", last |-> None,
     latency |-> None]

\* C3: whatever the interleaving, every record in a response of api_status
\* is, in all four fields together, the initial record or the record of one
\* update of the monitor (the one that appended the newest sample); the
\* updates of a target are ordered by strictly increasing tick number.
C3_NoTornRecord ==
    /\ \A r \in Readers :
         rd[r].resp # NoResp =>
           \A n \in Targets :
             \/ rd[r].resp[n] = InitialRecord(n) /\ history[n] = <<>>
             \/ /\ history[n] # <<>>
                /\ rd[r].resp[n] = RecordOfSample(n, Newest(n))
    /\ \A n \in Targets :
         \A i \in 1..Len(htick[n]) : \A j \in 1..Len(htick[n]) :
           i < j => htick[n][i] < htick[n][j]

\* C3 witness: a response taken while a tick is in progress (the monitor
\* waits for the lock with a new result for a target already updated once)
\* holds the record of the earlier tick, which differs from the new one
C3_Witness ==
    \E r \in Readers :
      /\ rd[r].resp # NoResp
      /\ mon.pc = "acquire"
      /\ history[mon.idx] # <<>>
      /\ rd[r].resp[mon.idx].status # mon.status
      /\ rd[r].resp[mon.idx].last # mon.ts

\* C4: the status of a target is Unknown exactly until its first update;
\* every update sets it to UP or DOWN, and a status that has left Unknown
\* never returns to it.
C4_StatusMachine ==
    /\ [](\A n \in Targets :
            /\ status_store[n].status \in {"Unknown", "UP", "DOWN"}
            /\ status_store[n].status = "Unknown" => history[n] = <<>>
            /\ (history[n] # <<>>) => status_store[n].status \in {"UP", "DOWN"})
    /\ [][\A n \in Targets :
            /\ status_store[n].status # "Unknown"
                 => status_store'[n].status \in {"UP", "DOWN"}
            /\ status_store'[n].status # status_store[n].status
                 => status_store'[n].status \in {"UP", "DOWN"}
            /\ htick'[n] # htick[n]
                 => status_store'[n].status \in {"UP", "DOWN"}]_vars

\* C4 witness: one target went from UP to DOWN and another from DOWN to UP:
\* neither state is terminal
C4_Witness ==
    \E n \in Targets : \E m \in Targets :
      /\ Len(history[n]) >= 2 /\ Len(history[m]) >= 2
      /\ history[n][Len(history[n]) - 1][2] = 1 /\ Newest(n)[2] = 0
      /\ status_store[n].status = "DOWN"
      /\ history[m][Len(history[m]) - 1][2] = 0 /\ Newest(m)[2] = 1
      /\ status_store[m].status = "UP"
      /\ lock = FREE

\* the monitor holds the outcome of a probe of target n in its locals
ProbeInHand(n) == mon.idx = n /\ mon.pc \notin {"probe", "sleep", "crashed"}

\* a probe of target n is complete
ProbeDone(n) == ProbeInHand(n) \/ history[n] # <<>>

\* the outcome of the most recently completed probe of target n
LastProbeOk(n) == IF ProbeInHand(n) THEN mon.ok ELSE Newest(n)[2] = 1

\* C5 as stated: whenever the monitor does not hold the lock, status = UP
\* implies that the most recently completed probe of the target was
\* reachable, and status # UP implies latency = None.
C5_Original ==
    lock # MONITOR =>
      \A n \in Targets :
        /\ status_store[n].status = "UP" => (ProbeDone(n) /\ LastProbeOk(n))
        /\ status_store[n].status # "UP" => status_store[n].latency = None

\* C5 amended: whenever the monitor does not hold the lock, status = UP
\* implies that the probe whose result the latest update of the target
\* recorded was reachable, and status # UP implies latency = None.
C5_StatusReflectsRecordedProbe ==
    lock # MONITOR =>
      \A n \in Targets :
        /\ status_store[n].status = "UP"
             => (history[n] # <<>> /\ Newest(n)[2] = 1)
        /\ status_store[n].status # "UP" => status_store[n].latency = None

\* C5 witness: readable states with UP and no latency, and with DOWN after
\* an update that had a latency
C5_Witness ==
    /\ lock # MONITOR
    /\ \E n \in Targets :
         status_store[n].status = "UP" /\ status_store[n].latency = None
    /\ \E n \in Targets :
         /\ status_store[n].status = "DOWN"
         /\ Len(history[n]) >= 2
         /\ history[n][Len(history[n]) - 1][3] # None

\* C6: the monitor never stops on a probe failure: it never leaves its loop,
\* at the end of every pass every target has been updated in that pass
\* whatever the other probes returned, and every target is probed again and
\* again.
C6_TickNeverAborts ==
    /\ [](mon.pc # "crashed")
    /\ [](mon.pc = "sleep" =>
            /\ tickDone = Targets
            /\ \A n \in Targets :
                 /\ history[n] # <<>>
                 /\ status_store[n].status = last_status[n]
                 /\ history[n][Len(history[n])][1] = status_store[n].last)
    /\ \A n \in Targets : []<>(mon.pc = "probe" /\ mon.idx = n)

\* C6 witness: a pass is complete in which the probe of the first target
\* failed and the last target was still updated, as UP
C6_Witness ==
    /\ mon.pc = "sleep"
    /\ tickDone = Targets
    /\ status_store[1].status = "DOWN"
    /\ status_store[Len(WIFI_TARGETS)].status = "UP"
    /\ history[Len(WIFI_TARGETS)] # <<>>

\* the positions of the monitor at which status_store holds the new status
StatusWritten == {"w_last", "w_latency", "append", "release", "last_status"}

\* C7: ping_latency never raises and returns one of three shapes: (False,
\* None) when subprocess.run raised or the return code is not 0; (True,
\* latency) when the return code is 0 and a latency parses; (True, None) when
\* the return code is 0 and none parses, which is recorded as UP.
C7_PingShapes ==
    /\ mon.pc # "crashed"
    /\ mon.proc # NoProc =>
         LET p == mon.proc
             m == SearchLatency(p.out)
             succeeded == ~p.exc /\ p.rc = 0
         IN /\ ~succeeded => (mon.ok = FALSE /\ mon.lat = None)
            /\ succeeded => mon.ok = TRUE
            /\ (succeeded /\ m # <<>> /\ ParseFloat(m).Ok)
                 => (mon.lat = ParseFloat(m).val /\ mon.lat >= 0)
            /\ (succeeded /\ (m = <<>> \/ ~ParseFloat(m).Ok)) => mon.lat = None
            /\ mon.pc \in StatusWritten =>
                 status_store[mon.idx].status
                   = (IF succeeded THEN "UP" ELSE "DOWN")

\* C7 witness: ping returned 0, a time= text was found that float() rejects,
\* and the target is recorded as UP without a latency
C7_Witness ==
    /\ mon.pc = "last_status"
    /\ ~mon.proc.exc /\ mon.proc.rc = 0
    /\ SearchLatency(mon.proc.out) # <<>>
    /\ mon.lat = None
    /\ status_store[mon.idx].status = "UP"
    /\ status_store[mon.idx].latency = None

\* C8: when a step of the bandwidth routine raises, the request goes on to
\* its response, whose download_mbps, upload_mbps and ping_ms are all None
\* and whose health is "Unknown"; no response has some of the three None and
\* others not.
C8_SpeedtestFailure ==
    \A t \in SpeedCallers :
      /\ sp[t].failed => sp[t].pc \in {"health", "respond"}
      /\ sp[t].pc = "respond" =>
           LET r == sp[t].resp
               nulls == {f \in {r.download_mbps, r.upload_mbps, r.ping_ms} : f = None}
           IN /\ sp[t].failed =>
                   /\ r.download_mbps = None
                   /\ r.upload_mbps = None
                   /\ r.ping_ms = None
                   /\ r.health = "Unknown"
              /\ ~sp[t].failed =>
                   /\ r.download_mbps # None
                   /\ r.upload_mbps # None
                   /\ r.ping_ms # None
              /\ (r.download_mbps = None) = (r.upload_mbps = None)
              /\ (r.download_mbps = None) = (r.ping_ms = None)

\* C8 witness: the upload raised after a download figure was measured, and
\* the response is ready
C8_Witness ==
    \E t \in SpeedCallers :
      /\ sp[t].pc = "respond"
      /\ sp[t].failed
      /\ sp[t].dl # None
      /\ sp[t].resp.health = "Unknown"

HealthRank(h) ==
    CASE h = "Weak" -> 1 [] h = "Fair" -> 2 [] h = "Good" -> 3
      [] h = "Excellent" -> 4

\* C9: the health label of a response is Unknown for None, Excellent from
\* 100 Mbit/s, Good from 50 and below 100, Fair from 10 and below 50, Weak
\* below 10; a figure on a boundary gets the higher label, and the label does
\* not decrease when the figure grows by one hundredth.
C9_HealthThresholds ==
    \A t \in SpeedCallers :
      sp[t].pc = "respond" =>
        LET d == sp[t].resp.download_mbps
            h == sp[t].resp.health
        IN /\ d = None => h = "Unknown"
           /\ d # None =>
                /\ d >= 10000 => h = "Excellent"
                /\ (d >= 5000 /\ d < 10000) => h = "Good"
                /\ (d >= 1000 /\ d < 5000) => h = "Fair"
                /\ (d >= 0 /\ d < 1000) => h = "Weak"
                /\ d > 0 => HealthRank(compute_health(d - 1)[1]) <= HealthRank(h)
                /\ HealthRank(h) <= HealthRank(compute_health(d + 1)[1])

\* C9 witness: a response with a download figure of exactly 100.00
C9_Witness ==
    \E t \in SpeedCallers :
      /\ sp[t].pc = "respond"
      /\ sp[t].resp.download_mbps = 10000
      /\ sp[t].resp.health = "Excellent"

\* C10: a speedtest request never holds the lock, and whatever the speedtest
\* requests do, even if they never return, the monitor keeps completing
\* passes and no api_status request stays unanswered (its thread is idle
\* again and again).
C10_SpeedtestNeverBlocks ==
    /\ [](lock[1] # "speed")
    /\ []<>(mon.pc = "sleep")
    /\ \A r \in Readers : []<>(rd[r].pc = "idle")

\* C10 witness: every speedtest request is inside its upload while a pass
\* of the monitor is complete and a status response is ready
C10_Witness ==
    /\ \A t \in SpeedCallers : sp[t].pc = "upload"
    /\ mon.pc = "sleep"
    /\ \E r \in Readers : rd[r].pc = "return" /\ rd[r].resp[1].status # "Unknown"

\* C11: every step of monitor_loop that changes module-level state
\* (status_store, history or last_status, lines 34-36) is taken while the
\* monitor holds the lock.
C11_WritesUnderLock ==
    [][(\/ status_store' # status_store
        \/ history' # history
        \/ last_status' # last_status)
         => (lock = MONITOR /\ lock' = MONITOR)]_vars

\* the request thread t is inside a call of the speedtest library (lines
\* 83-86: Speedtest(), get_best_server(), download(), upload())
InExternal(t) == sp[t].pc \in {"init", "server", "download", "upload"}

\* C12: with several /api/speedtest requests served at once, at most one of
\* them is inside the external bandwidth-measurement routine at any time.
C12_SpeedtestSerialized ==
    Cardinality({t \in DOMAIN sp : InExternal(t)}) <= 1

\* the positions of the monitor inside the with block of lines 106-108
MonitorLocked == {"w_ip", "w_status", "w_last", "w_latency", "append", "release"}

\* the positions of an api_status thread inside the with block of line 240
ReaderLocked == {"copy", "return"}

\* C13: the lock is held by the monitor exactly while it writes a record and
\* appends the sample, and by an api_status thread exactly while it copies
\* the snapshot; a thread that runs ping or a call of the speedtest library
\* does not hold it; and the lock is free again and again, although the
\* speedtest calls may never return.
C13_NoLockDuringIo ==
    /\ [](/\ (lock = MONITOR) = (mon.pc \in MonitorLocked)
          /\ \A r \in Readers :
               (lock = <<"reader", r>>) = (rd[r].pc \in ReaderLocked)
          /\ lock \in {FREE, MONITOR} \cup {<<"reader", r>> : r \in Readers}
          /\ mon.pc \in {"probe", "stamp", "sleep"} => lock # MONITOR
          /\ \A t \in SpeedCallers : lock # <<"speed", t>>)
    /\ []<>(lock = FREE)

\* C13 witness: the monitor holds the lock in the middle of a record while
\* every speedtest request is inside its download and an api_status thread
\* waits for the lock
C13_Witness ==
    /\ lock = MONITOR
    /\ mon.pc = "w_last"
    /\ \A t \in SpeedCallers : sp[t].pc = "download"
    /\ \E r \in Readers : rd[r].pc = "acquire"

\* the positions of the monitor after the append of line 108
Appended == {"release", "last_status"}

\* the number of the tick whose sample target n got last (0: none yet)
UpdatesOf(n) == IF htick[n] = <<>> THEN 0 ELSE htick[n][Len(htick[n])]

\* C14: the one monitor thread works on one tick at a time.  In tick
\* ticks + 1 exactly the targets before the current one (and the current one
\* once its sample is appended) have their sample of this tick, every other
\* target has its sample of the tick before and no later one; a failed probe
\* is recorded as DOWN; the sample tags of a target go up by one, so no
\* target is probed twice in a tick; and a new tick starts only from the
\* sleep that follows the update of the last target.
C14_TicksDoNotOverlap ==
    /\ [](/\ tickDone = (IF mon.pc = "sleep" THEN Targets
                         ELSE IF mon.pc \in Appended THEN 1..mon.idx
                         ELSE 1..(mon.idx - 1))
          /\ \A n \in Targets :
               /\ UpdatesOf(n) = (IF mon.pc # "sleep" /\ n \in tickDone
                                  THEN ticks + 1 ELSE ticks)
               /\ \A i \in 1..(Len(htick[n]) - 1) :
                    htick[n][i + 1] = htick[n][i] + 1
          /\ (mon.pc \in Appended /\ ~mon.ok) =>
               /\ status_store[mon.idx].status = "DOWN"
               /\ Newest(mon.idx)[2] = 0)
    /\ [][/\ (mon'.pc = "probe" /\ mon.pc # "probe") =>
               \/ mon.pc = "sleep" /\ mon'.idx = 1 /\ tickDone = Targets
               \/ mon.pc = "last_status" /\ mon'.idx = mon.idx + 1
          /\ tickDone' # tickDone =>
               \/ mon.pc = "sleep" /\ tickDone = Targets /\ tickDone' = {}
               \/ mon.pc = "append" /\ mon.idx \notin tickDone
                    /\ tickDone' = tickDone \cup {mon.idx}]_vars

\* C14 witness: the first target failed in tick 1 and got its next sample
\* only in tick 2, in which the second target is now about to be probed
C14_Witness ==
    /\ ticks = 1
    /\ mon.pc = "probe" /\ mon.idx = 2
    /\ tickDone = {1}
    /\ htick[1] = <<1, 2>> /\ htick[2] = <<1>>
    /\ history[1][1][2] = 0
    /\ history[1][2][2] = 1

\* C15: a step changes the record or the history of a target only as part
\* of the update of that very target, the others keep theirs; and when the
\* update of a target is complete its record is made of the outcome of its
\* own probe (status and latency) and of its own timestamp, whatever the
\* probes of the other targets returned.
C15_UpdateFrame ==
    /\ [][\A n \in Targets :
            (status_store'[n] # status_store[n] \/ history'[n] # history[n])
              => (mon.idx = n /\ mon.pc \in MonitorLocked)]_vars
    /\ [](mon.pc \in Appended =>
            LET r == ping_latency(mon.proc) IN
            /\ status_store[mon.idx] =
                 [ip |-> WIFI_TARGETS[mon.idx], status |-> StatusOf(r.ok),
                  last |-> mon.ts, latency |-> r.lat]
            /\ Newest(mon.idx) = SampleOf(mon.ts, r.ok, r.lat))

\* C15 witness: in one tick the first target failed and the second was then
\* updated as UP with a latency; the record of the first is still the one of
\* its own failed probe
C15_Witness ==
    /\ mon.pc = "last_status" /\ mon.idx = 2
    /\ tickDone = Targets
    /\ status_store[1] = RecordOfSample(1, Newest(1))
    /\ status_store[1].status = "DOWN"
    /\ status_store[2].status = "UP"
    /\ status_store[2].latency # None

\* C16: with several api_status requests at once and a lock that is granted
\* fairly, the monitor that waits for the lock gets it and completes the
\* update of the record, every api_status thread that waits for the lock gets
\* it and returns a snapshot of every target, and some thread can always
\* take a step.
C16_LockProgress ==
    /\ (mon.pc = "acquire") ~> (lock = MONITOR)
    /\ (lock = MONITOR) ~> (mon.pc = "last_status")
    /\ \A r \in ContendReaders :
         /\ (rd[r].pc = "acquire") ~> (lock = <<"reader", r>>)
         /\ (lock = <<"reader", r>>) ~>
              (rd[r].pc = "return" /\ DOMAIN rd[r].resp = Targets)
         /\ []<>(rd[r].pc = "idle")
    /\ [](ENABLED ContendNext)

\* C16 witness: one api_status thread holds the lock while another and the
\* monitor, with a record to write, both wait for it
C16_Witness ==
    /\ Cardinality(DOMAIN rd) >= 2
    /\ lock = <<"reader", 1>>
    /\ rd[2].pc = "acquire"
    /\ mon.pc = "acquire"

\* C17: whenever the lock is free, the newest sample of a non-empty history
\* agrees with the record of its target: its timestamp is the record's last,
\* its reachable flag is 1 exactly when the status is UP, and its latency is
\* the record's latency.
C17_RecordMatchesNewest ==
    lock = FREE =>
      \A n \in Targets :
        history[n] # <<>> =>
          /\ Newest(n)[1] = status_store[n].last
          /\ (Newest(n)[2] = 1) = (status_store[n].status = "UP")
          /\ Newest(n)[3] = status_store[n].latency

\* C17 witness: the lock is free between two updates of a target whose two
\* samples differ; the record is that of the newer one, UP with a latency,
\* and the monitor already has a different result in hand
C17_Witness ==
    /\ lock = FREE
    /\ mon.pc = "acquire"
    /\ Len(history[mon.idx]) = 2
    /\ history[mon.idx][1] # history[mon.idx][2]
    /\ status_store[mon.idx].status = "UP"
    /\ status_store[mon.idx].latency # None
    /\ mon.status = "DOWN"

\* C18: whenever the lock is free, for every target the status is Unknown
\* exactly when last is None and exactly when the history is empty, which is
\* the case exactly until the first update of the target; and in every state
\* the ip of a record is the configured address of its target.
C18_UnknownUntilFirstUpdate ==
    /\ \A n \in Targets : status_store[n].ip = WIFI_TARGETS[n]
    /\ lock = FREE =>
         \A n \in Targets :
           /\ (status_store[n].status = "Unknown") = (status_store[n].last = None)
           /\ (status_store[n].last = None) = (history[n] = <<>>)
           /\ (history[n] = <<>>) = (ticks = 0 /\ n \notin tickDone)

\* C18 witness: with the lock free, the first target has had its first
\* update and the last target has had none
C18_Witness ==
    /\ lock = FREE
    /\ status_store[1].status # "Unknown"
    /\ status_store[1].last # None
    /\ history[1] # <<>>
    /\ status_store[Len(WIFI_TARGETS)] = InitialRecord(Len(WIFI_TARGETS))
    /\ history[Len(WIFI_TARGETS)] = <<>>

\* the record a target has after its latest update, or before its first
LatestRecord(n) ==
    IF history[n] = <<>> THEN InitialRecord(n)
    ELSE RecordOfSample(n, Newest(n))

\* C19: in every state a target that comes earlier in WIFI_TARGETS has had
\* as many updates as a later one, or one more; and a snapshot that
\* api_status has just copied holds, for every target, the record of its
\* latest update, so the ticks of its records are N + 1 for a prefix of the
\* targets and N for the others.
C19_AtMostOneTickApart ==
    /\ \A a \in Targets : \A b \in Targets :
         a < b => UpdatesOf(a) - UpdatesOf(b) \in {0, 1}
    /\ \A r \in Readers :
         rd[r].pc = "return" =>
           /\ lock = <<"reader", r>>
           /\ \A n \in Targets : rd[r].resp[n] = LatestRecord(n)
           /\ \E k \in 0..Len(WIFI_TARGETS) :
                \A n \in Targets :
                  UpdatesOf(n) = UpdatesOf(Len(WIFI_TARGETS))
                                   + (IF n <= k THEN 1 ELSE 0)

\* C19 witness: a snapshot just copied in which the first target has the
\* record of tick 2 and the last target has the record of tick 1, unlike the
\* first one
C19_Witness ==
    \E r \in Readers :
      /\ rd[r].pc = "return"
      /\ UpdatesOf(1) = 2
      /\ UpdatesOf(Len(WIFI_TARGETS)) = 1
      /\ rd[r].resp[1].last # rd[r].resp[Len(WIFI_TARGETS)].last
      /\ rd[r].resp[1].status # rd[r].resp[Len(WIFI_TARGETS)].status

====
